---------------------------- MODULE Spec2Model ----------------------------
(***************************************************************************)
(* Model of wall_display.py (agslima/wall-display): the WallDisplayApp     *)
(* controller, its frame loop, and the background loader threads started   *)
(* by _trigger_category_load.                                              *)
(*                                                                         *)
(* The display thread runs the handlers of run(); each handler is one      *)
(* action.  A loader thread is modelled bytecode-wise where it touches     *)
(* shared state: decoding, the read of load_request_id, the read of the    *)
(* attribute loaded_result_queue, and the list append are separate steps.  *)
(* _trigger_category_load is one action: its two writes that loaders can   *)
(* observe (the rebinding of loaded_result_queue and the increment of      *)
(* load_request_id) are read by different loader steps (getq and check),   *)
(* so every interleaving inside the handler is equivalent to one in which  *)
(* the check comes before the handler and the attribute read after it.     *)
(***************************************************************************)
EXTENDS Integers, Sequences, FiniteSets, TLC

VARIABLES
    status,               \* "starting", "running", "exited" (sys.exit(0)),
                          \* "exit1" (sys.exit of a message) or "crashed"
    current_index,        \* self.current_index (0-based, as in the source)
    current_img_list,     \* self.current_img_list: the live ring
    current_img_bg,       \* self.current_img_bg (None is 0)
    is_loading,           \* self.is_loading
    load_request_id,      \* self.load_request_id
    loaded_result_queue,  \* the list bound to self.loaded_result_queue
    queue_obj,            \* identity of that list object
    queue_tags,           \* history: request id of each queued result
    threads,              \* the loader threads started so far
    timer_delay,          \* period of the USEREVENT timer, 0 when off
    timer_event,          \* a USEREVENT is waiting in the event queue
    ring_req,             \* history: request whose result is the live ring
    ring_base,            \* history: the ring as it was installed
    rot_net,              \* history: net left rotations since, mod length
    last_event,           \* history: the input event handled last
    menu_items,           \* self.menu_items
    env,                  \* the files the process reads
    call                  \* a call of a function of the module on its own

vars == <<status, current_index, current_img_list, current_img_bg,
          is_loading, load_request_id, loaded_result_queue, queue_obj,
          queue_tags, threads, timer_delay, timer_event, ring_req,
          ring_base, rot_net, last_event, menu_items, env, call>>

\* What the frame loop and the loader threads never write.
world_vars == <<menu_items, env, call>>

display_vars == <<current_index, current_img_list, current_img_bg,
                  is_loading, load_request_id>>

hist_vars == <<ring_req, ring_base, rot_net>>

-----------------------------------------------------------------------------
(* Bounds *)

\* Number of category switches a run may issue.
MaxRequests == 2

\* Length of the lists of paths given to load_images_threaded on its own.
MaxPaths == 3

\* Number of rows of the catalogs given to load_menu_structure on its own.
MaxRows == 3

-----------------------------------------------------------------------------
(* Configuration and assets *)

None == 0

image_delay_ms == 15000
start_delay_ms == 20000

\* path.name of the files, as sequences of character codes.
FileName ==
    << <<97, 46, 106, 112, 103>>,          \* 1  a.jpg
       <<98, 46, 74, 80, 71>>,             \* 2  b.JPG
       <<99, 46, 106, 112, 101, 103>>,     \* 3  c.jpeg
       <<100, 46, 106, 112, 103>>,         \* 4  d.jpg
       <<101, 46, 106, 112, 103>>,         \* 5  e.jpg
       <<110, 46, 116, 120, 116>>,         \* 6  n.txt
       <<66, 46, 106, 112, 103>>,          \* 7  B.jpg
       <<97, 50, 46, 74, 112, 101, 103>>,  \* 8  a2.Jpeg
       <<46, 106, 112, 103>>,              \* 9  .jpg
       <<106, 112, 103>> >>                \* 10 jpg

Files == DOMAIN FileName

\* ".jpg" and ".jpeg"
ImageSuffixes == {<<46, 106, 112, 103>>, <<46, 106, 112, 101, 103>>}

\* str.lower()
lower(str) ==
    [i \in DOMAIN str |-> IF str[i] \in 65..90 THEN str[i] + 32 ELSE str[i]]

\* PurePath.suffix: from the last dot, unless the name starts or ends there
suffix(name) ==
    LET dots == {i \in DOMAIN name : name[i] = 46} IN
    IF dots = {} THEN <<>>
    ELSE LET i == CHOOSE d \in dots : \A e \in dots : e <= d IN
         IF 1 < i /\ i < Len(name) THEN SubSeq(name, i, Len(name)) ELSE <<>>

\* str.__lt__: comparison by code points
RECURSIVE StrLess(_, _)
StrLess(a, b) ==
    IF b = <<>> THEN FALSE
    ELSE IF a = <<>> THEN TRUE
    ELSE IF Head(a) # Head(b) THEN Head(a) < Head(b)
    ELSE StrLess(Tail(a), Tail(b))

\* Variant: sorted(paths, reverse=True)
RECURSIVE sorted_descending(_)
sorted_descending(paths) ==
    IF paths = {} THEN <<>>
    ELSE LET last == CHOOSE p \in paths : \A q \in paths \ {p} :
                         StrLess(FileName[q], FileName[p])
         IN  <<last>> \o sorted_descending(paths \ {last})

\* sorted(paths) of paths of one directory
RECURSIVE sorted(_)
sorted(paths) ==
    IF paths = {} THEN <<>>
    ELSE LET first == CHOOSE p \in paths : \A q \in paths \ {p} :
                          StrLess(FileName[p], FileName[q])
         IN  <<first>> \o sorted(paths \ {first})

\* Variant: the suffix is compared as it is spelled.
scan_images_case_sensitive(directory) ==
    IF ~directory.exists THEN <<>>
    ELSE sorted({f \in directory.entries : suffix(FileName[f]) \in ImageSuffixes})

\* AssetManager._scan_images(directory)
scan_images(directory) ==
    IF ~directory.exists THEN <<>>
    ELSE sorted({f \in directory.entries :
                    lower(suffix(FileName[f])) \in ImageSuffixes})

\* Fields of menu.data that int() accepts, and their values.
ParseInt(field) ==
    CASE field = "0" -> 0
      [] field = "1" -> 1
      [] field = " 1" -> 1
      [] field = "2" -> 2
      [] field = "3" -> 3
      [] field = "4" -> 4

IsInt(field) == field \in {"0", "1", " 1", "2", "3", "4"}

\* str.strip()
strip(field) ==
    CASE field = " city " -> "city"
      [] field = " 1" -> "1"
      [] field = " Nature" -> "Nature"
      [] OTHER -> field

\* The directories under root_dir.
NoDirectory == [exists |-> FALSE, entries |-> {}]

Directory(name) ==
    IF name \in DOMAIN env.dirs THEN env.dirs[name] ELSE NoDirectory

\* MenuItem(...) of one row
MenuItem(row) ==
    [menu_id     |-> ParseInt(strip(row[1])),
     directory   |-> strip(row[2]),
     menu_name   |-> strip(row[4]),
     description |-> IF Len(row) > 4 THEN strip(row[5]) ELSE "",
     image_paths |-> scan_images(Directory(strip(row[2])))]

\* The loop over the rows; a ValueError of int() ends it, and what was
\* appended before is returned.
RECURSIVE read_rows(_, _)
read_rows(rows, items) ==
    IF rows = <<>> THEN items
    ELSE LET row == Head(rows) IN
         IF Len(row) > 3
         THEN IF ~IsInt(row[3]) THEN items
              ELSE IF ParseInt(row[3]) = 1
                   THEN IF ~IsInt(strip(row[1])) THEN items
                        ELSE read_rows(Tail(rows),
                                       Append(items, MenuItem(row)))
                   ELSE read_rows(Tail(rows), items)
         ELSE read_rows(Tail(rows), items)

\* Variant: a row needs all five fields.
load_menu_structure_five_fields ==
    IF ~env.catalog.exists THEN <<>>
    ELSE read_rows(SelectSeq(env.catalog.rows, LAMBDA r : Len(r) > 4), <<>>)

\* AssetManager.load_menu_structure()
load_menu_structure ==
    IF ~env.catalog.exists THEN <<>>
    ELSE read_rows(env.catalog.rows, <<>>)

\* The installation the display runs on.
StandardRows ==
    << <<"1", "nature", "1", " Nature", "x">>,
       <<"4", "nature", "0", "Off", "z">>,
       <<"2", " city ", " 1", "City", "y">>,
       <<"3", "empty", "1", "Empty">> >>

StandardDirs ==
    [d \in {"nature", "city"} |->
        IF d = "nature" THEN [exists |-> TRUE, entries |-> {1, 2, 3, 6}]
        ELSE [exists |-> TRUE, entries |-> {4, 5}]]

NoConfig == [exists |-> FALSE, wellformed |-> FALSE, doc |-> <<>>]

StandardEnv ==
    [catalog     |-> [exists |-> TRUE, rows |-> StandardRows],
     dirs        |-> StandardDirs,
     undecodable |-> {4},
     config      |-> NoConfig]

\* The same files, with the third directory present and holding one file
\* that does not decode and one that is not an image.
UndecodableDirs ==
    [d \in {"nature", "city", "empty"} |->
        IF d = "empty" THEN [exists |-> TRUE, entries |-> {4, 6}]
        ELSE StandardDirs[d]]

StandardEnvs ==
    {StandardEnv, [StandardEnv EXCEPT !.dirs = UndecodableDirs]}

NoCall == [fn |-> "none", done |-> TRUE]

\* ConfigManager.DEFAULT_CONFIG
DEFAULT_CONFIG ==
    [window    |-> [fullscreen |-> TRUE, menu_width |-> 205, fps |-> 30],
     slideshow |-> [image_delay_ms |-> 15000, start_delay_ms |-> 20000,
                    fade_speed_ms |-> 20],
     colors    |-> [background    |-> <<0, 0, 0>>,
                    font_active   |-> <<255, 255, 255>>,
                    font_inactive |-> <<100, 100, 100>>,
                    loading_text  |-> <<255, 255, 0>>,
                    spinner       |-> <<0, 200, 255>>]]

\* final_config.update(user_config): the keys of user_config replace those
\* of final_config, value by value
update(final_config, user_config) ==
    [k \in (DOMAIN final_config) \cup (DOMAIN user_config) |->
        IF k \in DOMAIN user_config THEN user_config[k] ELSE final_config[k]]

\* Variant: a document that does not decode leaves an empty configuration.
load_config_empty_on_error ==
    IF ~env.config.exists THEN DEFAULT_CONFIG
    ELSE IF ~env.config.wellformed THEN <<>>
    ELSE update(DEFAULT_CONFIG, env.config.doc)

\* ConfigManager._load_config(path)
load_config ==
    IF ~env.config.exists THEN DEFAULT_CONFIG
    ELSE IF ~env.config.wellformed THEN DEFAULT_CONFIG
    ELSE update(DEFAULT_CONFIG, env.config.doc)

\* ConfigManager.get(section, key) on the loaded data; None when absent
HasKey(data, section, key) ==
    /\ section \in DOMAIN data
    /\ key \in DOMAIN data[section]

\* Files that pygame.image.load rejects.
Undecodable == env.undecodable

\* (path.name, img, bg_surface)
Resource(path) == <<path, 100 + path, 200 + path>>

\* Variant: the first file that fails ends the batch.
RECURSIVE load_images_threaded_aborts(_)
load_images_threaded_aborts(paths) ==
    IF paths = <<>> THEN <<>>
    ELSE IF Head(paths) \in Undecodable
         THEN <<>>
         ELSE <<Resource(Head(paths))>>
                  \o load_images_threaded_aborts(Tail(paths))

RECURSIVE load_images_threaded(_)
load_images_threaded(paths) ==
    IF paths = <<>> THEN <<>>
    ELSE IF Head(paths) \in Undecodable
         THEN load_images_threaded(Tail(paths))
         ELSE <<Resource(Head(paths))>> \o load_images_threaded(Tail(paths))

\* Variant: lst.append(lst.pop())
RotateLeft_pops_tail(lst) == Append(SubSeq(lst, 1, Len(lst) - 1), lst[Len(lst)])

\* lst.append(lst.pop(0))
RotateLeft(lst) == Append(Tail(lst), Head(lst))

\* Variant: lst.insert(0, lst.pop(0))
RotateRight_pops_head(lst) == <<Head(lst)>> \o Tail(lst)

\* lst.insert(0, lst.pop())
RotateRight(lst) == <<lst[Len(lst)]>> \o SubSeq(lst, 1, Len(lst) - 1)

\* wall-display.py: _rotate_left(lst) and _rotate_right(lst)
rotate_left(lst) == IF lst # <<>> THEN Append(Tail(lst), Head(lst)) ELSE lst

rotate_right(lst) ==
    IF lst # <<>>
    THEN <<lst[Len(lst)]>> \o SubSeq(lst, 1, Len(lst) - 1)
    ELSE lst

\* Variant: _reset_slideshow_timer always takes the per-image delay.
ResetDelay_per_image(is_start) == image_delay_ms

\* pygame.time.set_timer(USEREVENT, delay) of _reset_slideshow_timer
ResetDelay(is_start) == IF is_start THEN start_delay_ms ELSE image_delay_ms

-----------------------------------------------------------------------------
(* Initial state: WallDisplayApp.__init__ and _initialize_content *)

Init ==
    /\ env \in StandardEnvs
    /\ call = NoCall
    /\ menu_items = load_menu_structure
    /\ status = "running"
    /\ current_index = 0
    /\ current_img_list = load_images_threaded(menu_items[1].image_paths)
    /\ current_img_bg = IF current_img_list # <<>>
                        THEN current_img_list[1][3] ELSE None
    /\ is_loading = FALSE
    /\ load_request_id = 0
    /\ loaded_result_queue = <<>>
    /\ queue_obj = 0
    /\ queue_tags = <<>>
    /\ threads = <<>>
    /\ timer_delay = ResetDelay(TRUE)
    /\ timer_event = FALSE
    /\ ring_req = 0
    /\ ring_base = current_img_list
    /\ rot_net = 0
    /\ last_event = "none"

-----------------------------------------------------------------------------
(* Display thread *)

\* Variant: a switch requested while a load is pending is dropped.
TriggerCategoryLoad_drops_when_loading(new_index) ==
    IF is_loading
    THEN UNCHANGED <<status, display_vars, loaded_result_queue, queue_obj,
                     queue_tags, threads, timer_delay, timer_event,
                     hist_vars>>
    ELSE /\ current_index' = new_index
         /\ is_loading' = TRUE
         /\ loaded_result_queue' = <<>>
         /\ queue_obj' = queue_obj + 1
         /\ queue_tags' = <<>>
         /\ load_request_id' = load_request_id + 1
         /\ threads' = Append(threads,
                          [pc      |-> "load",
                           req_id  |-> load_request_id + 1,
                           index   |-> new_index,
                           paths   |-> menu_items[new_index + 1].image_paths,
                           results |-> <<>>,
                           qref    |-> 0,
                           outcome |-> "running"])
         /\ UNCHANGED <<status, current_img_list, current_img_bg,
                        timer_delay, timer_event, hist_vars>>

\* Variant: the switch blanks the display while the load is pending.
TriggerCategoryLoad_clears_ring(new_index) ==
    /\ current_index' = new_index
    /\ is_loading' = TRUE
    /\ loaded_result_queue' = <<>>
    /\ queue_obj' = queue_obj + 1
    /\ queue_tags' = <<>>
    /\ load_request_id' = load_request_id + 1
    /\ threads' = Append(threads,
                         [pc      |-> "load",
                          req_id  |-> load_request_id + 1,
                          index   |-> new_index,
                          paths   |-> menu_items[new_index + 1].image_paths,
                          results |-> <<>>,
                          qref    |-> 0,
                          outcome |-> "running"])
    /\ current_img_list' = <<>>
    /\ current_img_bg' = None
    /\ UNCHANGED <<status, timer_delay, timer_event, hist_vars>>

\* Variant: the switch keeps the list of queued results.
TriggerCategoryLoad_keeps_queue(new_index) ==
    /\ current_index' = new_index
    /\ is_loading' = TRUE
    /\ load_request_id' = load_request_id + 1
    /\ threads' = Append(threads,
                         [pc      |-> "load",
                          req_id  |-> load_request_id + 1,
                          index   |-> new_index,
                          paths   |-> menu_items[new_index + 1].image_paths,
                          results |-> <<>>,
                          qref    |-> 0,
                          outcome |-> "running"])
    /\ UNCHANGED <<status, current_img_list, current_img_bg,
                   loaded_result_queue, queue_obj, queue_tags, timer_delay,
                   timer_event, hist_vars>>

\* _trigger_category_load(new_index)
TriggerCategoryLoad(new_index) ==
    /\ current_index' = new_index
    /\ is_loading' = TRUE
    /\ loaded_result_queue' = <<>>
    /\ queue_obj' = queue_obj + 1
    /\ queue_tags' = <<>>
    /\ load_request_id' = load_request_id + 1
    /\ threads' = Append(threads,
                         [pc      |-> "load",
                          req_id  |-> load_request_id + 1,
                          index   |-> new_index,
                          paths   |-> menu_items[new_index + 1].image_paths,
                          results |-> <<>>,
                          qref    |-> 0,
                          outcome |-> "running"])
    /\ UNCHANGED <<status, current_img_list, current_img_bg, timer_delay,
                   timer_event, hist_vars>>

\* A thread that has returned: its locals are gone.  outcome is history:
\* "dropped" by the test, "posted" to the live queue, or "lost" in a list
\* that is no longer the queue.
Finished(req_id, outcome) ==
    [pc |-> "done", req_id |-> req_id, index |-> 0, paths |-> <<>>,
     results |-> <<>>, qref |-> 0, outcome |-> outcome]

\* new_idx of K_UP: (self.current_index + 1) % len(self.menu_items)
next_index(index) == (index + 1) % Len(menu_items)

\* Variant: previous stops at the first category.
prev_index_clamps(index) == IF index = 0 THEN 0 ELSE index - 1

\* new_idx of K_DOWN: (self.current_index - 1) % len(self.menu_items)
prev_index(index) == (index - 1) % Len(menu_items)

\* K_UP / K_KP8
KeyUp ==
    /\ status = "running"
    /\ UNCHANGED world_vars
    /\ last_event' = "KeyUp"
    /\ load_request_id < MaxRequests
    /\ TriggerCategoryLoad(next_index(current_index))

\* K_DOWN / K_KP2
KeyDown ==
    /\ status = "running"
    /\ UNCHANGED world_vars
    /\ last_event' = "KeyDown"
    /\ load_request_id < MaxRequests
    /\ TriggerCategoryLoad(prev_index(current_index))

\* Variant: _rotate_images without the is_loading test.
rotate_images_ignores_loading(direction) ==
    IF current_img_list = <<>>
    THEN [list |-> current_img_list, bg |-> current_img_bg, raised |-> FALSE]
    ELSE LET lst == IF direction = "left"
                    THEN RotateLeft(current_img_list)
                    ELSE RotateRight(current_img_list)
         IN  [list |-> lst, bg |-> lst[1][3], raised |-> FALSE]

\* Variant: _rotate_images without the test of the empty list.
rotate_images_pops_empty(direction) ==
    IF is_loading
    THEN [list |-> current_img_list, bg |-> current_img_bg, raised |-> FALSE]
    ELSE IF current_img_list = <<>>
    THEN [list |-> current_img_list, bg |-> current_img_bg, raised |-> TRUE]
    ELSE LET lst == IF direction = "left"
                    THEN RotateLeft(current_img_list)
                    ELSE RotateRight(current_img_list)
         IN  [list |-> lst, bg |-> lst[1][3], raised |-> FALSE]

\* _rotate_images(direction): the new list and displayed image, and whether
\* a list operation raised (pop from an empty list, index 0 of an empty list)
rotate_images(direction) ==
    IF current_img_list = <<>> \/ is_loading
    THEN [list |-> current_img_list, bg |-> current_img_bg, raised |-> FALSE]
    ELSE LET lst == IF direction = "left"
                    THEN RotateLeft(current_img_list)
                    ELSE RotateRight(current_img_list)
         IN  [list |-> lst, bg |-> lst[1][3], raised |-> FALSE]

\* History of the rotations applied to the installed ring.
RotNet(direction, old, new) ==
    IF old = <<>> \/ is_loading THEN rot_net
    ELSE IF direction = "left" THEN (rot_net + 1) % Len(old)
    ELSE (rot_net - 1) % Len(old)

\* A handler that calls _rotate_images(direction) and then sets the timer.
RotateHandler(direction, delay) ==
    LET r == rotate_images(direction) IN
    IF r.raised
    THEN /\ status' = "crashed"
         /\ UNCHANGED <<display_vars, loaded_result_queue, queue_obj,
                        queue_tags, threads, timer_delay, timer_event,
                        hist_vars>>
    ELSE /\ current_img_list' = r.list
         /\ current_img_bg' = r.bg
         /\ timer_delay' = delay
         /\ rot_net' = RotNet(direction, current_img_list, r.list)
         /\ UNCHANGED <<status, current_index, is_loading, load_request_id,
                        loaded_result_queue, queue_obj, queue_tags, threads,
                        timer_event, ring_req, ring_base>>

\* K_LEFT / K_KP4
KeyLeft ==
    /\ status = "running"
    /\ UNCHANGED world_vars
    /\ last_event' = "KeyLeft"
    /\ RotateHandler("right", ResetDelay(TRUE))

\* K_RIGHT / K_KP6
KeyRight ==
    /\ status = "running"
    /\ UNCHANGED world_vars
    /\ last_event' = "KeyRight"
    /\ RotateHandler("left", ResetDelay(TRUE))

\* K_p
KeyPause ==
    /\ status = "running"
    /\ UNCHANGED world_vars
    /\ last_event' = "KeyPause"
    /\ timer_delay' = 0
    /\ UNCHANGED <<status, display_vars, loaded_result_queue, queue_obj,
                   queue_tags, threads, timer_event, hist_vars>>

\* pygame.QUIT, K_ESCAPE, K_q: the loop ends, sys.exit(0) ends the daemons
Quit ==
    /\ status = "running"
    /\ UNCHANGED world_vars
    /\ last_event' = "Quit"
    /\ status' = "exited"
    /\ UNCHANGED <<display_vars, loaded_result_queue, queue_obj, queue_tags,
                   threads, timer_delay, timer_event, hist_vars>>

\* The pygame timer posts a USEREVENT.
TimerFire ==
    /\ status = "running"
    /\ UNCHANGED world_vars
    /\ UNCHANGED last_event
    /\ timer_delay # 0
    /\ ~timer_event
    /\ timer_event' = TRUE
    /\ UNCHANGED <<status, display_vars, loaded_result_queue, queue_obj,
                   queue_tags, threads, timer_delay, hist_vars>>

\* pygame.USEREVENT
OnUserEvent ==
    /\ status = "running"
    /\ UNCHANGED world_vars
    /\ last_event' = "OnUserEvent"
    /\ timer_event
    /\ timer_event' = FALSE
    /\ IF ~is_loading
       THEN LET r == rotate_images("left") IN
            IF r.raised
            THEN /\ status' = "crashed"
                 /\ timer_delay' = image_delay_ms
                 /\ UNCHANGED <<display_vars, loaded_result_queue, queue_obj,
                                queue_tags, threads, hist_vars>>
            ELSE /\ timer_delay' = image_delay_ms
                 /\ current_img_list' = r.list
                 /\ current_img_bg' = r.bg
                 /\ rot_net' = RotNet("left", current_img_list, r.list)
                 /\ UNCHANGED <<status, current_index, is_loading,
                                load_request_id, loaded_result_queue,
                                queue_obj, queue_tags, threads, ring_req,
                                ring_base>>
       ELSE UNCHANGED <<status, display_vars, loaded_result_queue, queue_obj,
                        queue_tags, threads, timer_delay, hist_vars>>

\* Variant: the delivered list is appended to the old ring.
check_loading_complete_merges ==
    IF loaded_result_queue # <<>>
    THEN LET new_images == Head(loaded_result_queue) IN
         /\ loaded_result_queue' = Tail(loaded_result_queue)
         /\ queue_tags' = Tail(queue_tags)
         /\ current_img_list' = current_img_list \o new_images
         /\ is_loading' = FALSE
         /\ current_img_bg' = IF new_images # <<>>
                              THEN new_images[1][3] ELSE current_img_bg
         /\ timer_delay' = ResetDelay(TRUE)
         /\ ring_req' = Head(queue_tags)
         /\ ring_base' = current_img_list \o new_images
         /\ rot_net' = 0
         /\ UNCHANGED <<status, current_index, load_request_id, queue_obj,
                        threads, timer_event, last_event>>
    ELSE UNCHANGED vars

\* Variant: the commit also resets the request counter.
check_loading_complete_resets_id ==
    IF loaded_result_queue # <<>>
    THEN LET new_images == Head(loaded_result_queue) IN
         /\ loaded_result_queue' = Tail(loaded_result_queue)
         /\ queue_tags' = Tail(queue_tags)
         /\ current_img_list' = new_images
         /\ is_loading' = FALSE
         /\ load_request_id' = 0
         /\ current_img_bg' = IF new_images # <<>>
                              THEN new_images[1][3] ELSE current_img_bg
         /\ timer_delay' = ResetDelay(TRUE)
         /\ ring_req' = Head(queue_tags)
         /\ ring_base' = new_images
         /\ rot_net' = 0
         /\ UNCHANGED <<status, current_index, queue_obj, threads,
                        timer_event, last_event>>
    ELSE UNCHANGED vars

\* Variant: the commit leaves is_loading set.
check_loading_complete_stays_loading ==
    IF loaded_result_queue # <<>>
    THEN LET new_images == Head(loaded_result_queue) IN
         /\ loaded_result_queue' = Tail(loaded_result_queue)
         /\ queue_tags' = Tail(queue_tags)
         /\ current_img_list' = new_images
         /\ current_img_bg' = IF new_images # <<>>
                              THEN new_images[1][3] ELSE current_img_bg
         /\ timer_delay' = ResetDelay(TRUE)
         /\ ring_req' = Head(queue_tags)
         /\ ring_base' = new_images
         /\ rot_net' = 0
         /\ UNCHANGED <<status, current_index, is_loading, load_request_id,
                        queue_obj, threads, timer_event, last_event>>
    ELSE UNCHANGED vars

\* _check_loading_complete()
check_loading_complete ==
    IF loaded_result_queue # <<>>
    THEN LET new_images == Head(loaded_result_queue) IN
         /\ loaded_result_queue' = Tail(loaded_result_queue)
         /\ queue_tags' = Tail(queue_tags)
         /\ current_img_list' = new_images
         /\ is_loading' = FALSE
         /\ current_img_bg' = IF new_images # <<>>
                              THEN new_images[1][3] ELSE current_img_bg
         /\ timer_delay' = ResetDelay(TRUE)
         /\ ring_req' = Head(queue_tags)
         /\ ring_base' = new_images
         /\ rot_net' = 0
         /\ UNCHANGED <<status, current_index, load_request_id, queue_obj,
                        threads, timer_event, last_event>>
    ELSE UNCHANGED vars

\* Variant: the frame polls the queue whatever is_loading is.
LogicUpdate_polls_when_idle ==
    /\ status = "running"
    /\ UNCHANGED world_vars
    /\ check_loading_complete

\* "2. Logic Update" of a frame
LogicUpdate ==
    /\ status = "running"
    /\ UNCHANGED world_vars
    /\ IF is_loading THEN check_loading_complete ELSE UNCHANGED vars

-----------------------------------------------------------------------------
(* Loader threads: worker(req_id, paths) *)

\* results = self.asset_mgr.load_images_threaded(paths)
WorkerLoad(w) ==
    /\ status = "running"
    /\ UNCHANGED world_vars
    /\ UNCHANGED last_event
    /\ threads[w].pc = "load"
    /\ threads' = [threads EXCEPT
                     ![w].pc = "check",
                     ![w].results = load_images_threaded(threads[w].paths)]
    /\ UNCHANGED <<status, display_vars, loaded_result_queue, queue_obj,
                   queue_tags, timer_delay, timer_event, hist_vars>>

\* Variant: the loader posts whatever the counter is.
worker_check_always(req_id) == req_id = req_id

\* Variant: the test of the post inverted.
worker_check_inverted(req_id) == req_id # load_request_id

\* The test of the post
worker_check(req_id) == req_id = load_request_id

\* if req_id == self.load_request_id:
WorkerCheck(w) ==
    /\ status = "running"
    /\ UNCHANGED world_vars
    /\ UNCHANGED last_event
    /\ threads[w].pc = "check"
    /\ threads' = [threads EXCEPT
                     ![w] = IF worker_check(threads[w].req_id)
                            THEN [@ EXCEPT !.pc = "getq"]
                            ELSE Finished(@.req_id, "dropped")]
    /\ UNCHANGED <<status, display_vars, loaded_result_queue, queue_obj,
                   queue_tags, timer_delay, timer_event, hist_vars>>

\* the attribute read of self.loaded_result_queue
WorkerGetQueue(w) ==
    /\ status = "running"
    /\ UNCHANGED world_vars
    /\ UNCHANGED last_event
    /\ threads[w].pc = "getq"
    /\ threads' = [threads EXCEPT ![w].pc = "append", ![w].qref = queue_obj]
    /\ UNCHANGED <<status, display_vars, loaded_result_queue, queue_obj,
                   queue_tags, timer_delay, timer_event, hist_vars>>

\* Variant: the loader installs its result itself.
WorkerAppend_installs(w) ==
    /\ status = "running"
    /\ UNCHANGED world_vars
    /\ threads[w].pc = "append"
    /\ threads' = [threads EXCEPT ![w] = Finished(@.req_id, "posted")]
    /\ current_img_list' = threads[w].results
    /\ is_loading' = FALSE
    /\ ring_req' = threads[w].req_id
    /\ ring_base' = threads[w].results
    /\ rot_net' = 0
    /\ UNCHANGED <<status, current_index, current_img_bg, load_request_id,
                   loaded_result_queue, queue_tags, queue_obj, timer_delay,
                   timer_event, last_event>>

\* .append(results), on the list object read before
WorkerAppend(w) ==
    /\ status = "running"
    /\ UNCHANGED world_vars
    /\ UNCHANGED last_event
    /\ threads[w].pc = "append"
    /\ threads' = [threads EXCEPT
                     ![w] = Finished(@.req_id,
                                     IF threads[w].qref = queue_obj
                                     THEN "posted" ELSE "lost")]
    /\ IF threads[w].qref = queue_obj
       THEN /\ loaded_result_queue' =
                   Append(loaded_result_queue, threads[w].results)
            /\ queue_tags' = Append(queue_tags, threads[w].req_id)
       ELSE UNCHANGED <<loaded_result_queue, queue_tags>>
    /\ UNCHANGED <<status, display_vars, queue_obj, timer_delay, timer_event,
                   hist_vars>>

\* One step of loader thread w.
Worker(w) ==
    /\ w \in DOMAIN threads
    /\ WorkerLoad(w) \/ WorkerCheck(w) \/ WorkerGetQueue(w) \/ WorkerAppend(w)

Load == \E w \in DOMAIN threads : WorkerLoad(w)
Check == \E w \in DOMAIN threads : WorkerCheck(w)
GetQueue == \E w \in DOMAIN threads : WorkerGetQueue(w)
Post == \E w \in DOMAIN threads : WorkerAppend(w)

-----------------------------------------------------------------------------

Next ==
    \/ KeyUp
    \/ KeyDown
    \/ KeyLeft
    \/ KeyRight
    \/ KeyPause
    \/ Quit
    \/ TimerFire
    \/ OnUserEvent
    \/ LogicUpdate
    \/ Load
    \/ Check
    \/ GetQueue
    \/ Post

Spec == Init /\ [][Next]_vars

\* Every started loader thread keeps being scheduled until it returns, and
\* the frame loop keeps running its logic update.
LiveSpec ==
    /\ Init /\ [][Next]_vars
    /\ WF_vars(LogicUpdate)
    /\ \A w \in 1..MaxRequests : WF_vars(Worker(w))

-----------------------------------------------------------------------------
(* Start-up: WallDisplayApp.__init__ before _initialize_content *)

InitApp ==
    /\ status = "starting"
    /\ menu_items = <<>>
    /\ current_index = 0
    /\ current_img_list = <<>>
    /\ current_img_bg = None
    /\ is_loading = FALSE
    /\ load_request_id = 0
    /\ loaded_result_queue = <<>>
    /\ queue_obj = 0
    /\ queue_tags = <<>>
    /\ threads = <<>>
    /\ timer_delay = 0
    /\ timer_event = FALSE
    /\ ring_req = 0
    /\ ring_base = <<>>
    /\ rot_net = 0
    /\ last_event = "none"

\* Variant: _initialize_content without the test of menu_items; indexing
\* the empty list raises, and __main__ logs the crash.
initialize_content_unchecked ==
    LET items == load_menu_structure IN
    /\ menu_items' = items
    /\ IF items = <<>>
       THEN /\ status' = "crashed"
            /\ UNCHANGED <<current_img_list, current_img_bg, timer_delay,
                           ring_base>>
       ELSE LET images == load_images_threaded(items[1].image_paths) IN
            /\ current_img_list' = images
            /\ current_img_bg' = IF images # <<>>
                                 THEN images[1][3] ELSE current_img_bg
            /\ timer_delay' = ResetDelay(TRUE)
            /\ ring_base' = images
            /\ status' = "running"
    /\ UNCHANGED <<current_index, is_loading, load_request_id,
                   loaded_result_queue, queue_obj, queue_tags, threads,
                   timer_event, ring_req, rot_net, last_event, env, call>>

\* _initialize_content(); sys.exit("No menu data found") is exit status 1
initialize_content ==
    LET items == load_menu_structure IN
    /\ menu_items' = items
    /\ IF items = <<>>
       THEN /\ status' = "exit1"
            /\ UNCHANGED <<current_img_list, current_img_bg, timer_delay,
                           ring_base>>
       ELSE LET images == load_images_threaded(items[1].image_paths) IN
            /\ current_img_list' = images
            /\ current_img_bg' = IF images # <<>>
                                 THEN images[1][3] ELSE current_img_bg
            /\ timer_delay' = ResetDelay(TRUE)
            /\ ring_base' = images
            /\ status' = "running"
    /\ UNCHANGED <<current_index, is_loading, load_request_id,
                   loaded_result_queue, queue_obj, queue_tags, threads,
                   timer_event, ring_req, rot_net, last_event, env, call>>

Startup ==
    /\ status = "starting"
    /\ call = NoCall
    /\ initialize_content

\* Catalogs the process may be started on.
StartCatalogs ==
    { [exists |-> FALSE, rows |-> <<>>],
      [exists |-> TRUE,  rows |-> <<>>],
      [exists |-> TRUE,  rows |-> << <<"4", "nature", "0", "Off", "z">> >>],
      [exists |-> TRUE,  rows |-> << <<"3", "empty", "1">> >>],
      [exists |-> TRUE,  rows |-> << <<"4", "city", "z", "BadEnabled", "d">>,
                                     <<"1", "nature", "1", " Nature", "x">> >>],
      [exists |-> TRUE,  rows |-> << <<"2", " city ", " 1", "City", "y">> >>],
      [exists |-> TRUE,  rows |-> << <<"1", "nature", "1", " Nature", "x">>,
                                     <<"2", " city ", " 1", "City", "y">> >>],
      [exists |-> TRUE,  rows |-> StandardRows] }

InitStart ==
    /\ env \in {[StandardEnv EXCEPT !.catalog = c] : c \in StartCatalogs}
    /\ call = NoCall
    /\ InitApp

NextStart == Startup \/ Next

StartSpec == InitStart /\ [][NextStart]_vars

-----------------------------------------------------------------------------
(* The functions of AssetManager and ConfigManager called on their own *)

app_vars == <<status, current_index, current_img_list, current_img_bg,
              is_loading, load_request_id, loaded_result_queue, queue_obj,
              queue_tags, threads, timer_delay, timer_event, ring_req,
              ring_base, rot_net, last_event, menu_items, env>>

\* The sequences without repetition, of length at most n, of elements of S
RECURSIVE Lists(_, _)
Lists(S, n) ==
    IF n = 0 THEN {<<>>}
    ELSE LET shorter == Lists(S, n - 1) IN
         shorter \cup {Append(l, x) : l \in shorter, x \in S}

NoRepeat(l) == \A i, j \in DOMAIN l : i # j => l[i] # l[j]

\* Rows of menu.data, split at the colons.
CatalogRows ==
    { <<"1", "nature", "1", " Nature", "x">>,
      <<"2", " city ", "0", "City", "y">>,
      <<"1", "nature", " 1", "Dup">>,
      <<"3", "empty", "1">>,
      <<"x", "city", "1", "BadId", "d">>,
      <<"4", "city", "z", "BadEnabled", "d">>,
      <<"x", "nature", "0", "BadIdOff", "d">> }

\* Files given to load_images_threaded.
LoadFiles == 1..(MaxPaths + 1)

\* Documents of config.json: each section absent, with one key, or whole.
SectionDocs(section) ==
    CASE section = "window" ->
            { [fps |-> 60],
              [fullscreen |-> FALSE, menu_width |-> 300, fps |-> 60] }
      [] section = "slideshow" ->
            { [image_delay_ms |-> 5000],
              [image_delay_ms |-> 5000, start_delay_ms |-> 1000,
               fade_speed_ms |-> 10] }
      [] section = "colors" ->
            { [spinner |-> <<1, 2, 3>>],
              [background    |-> <<9, 9, 9>>,
               font_active   |-> <<8, 8, 8>>,
               font_inactive |-> <<7, 7, 7>>,
               loading_text  |-> <<6, 6, 6>>,
               spinner       |-> <<1, 2, 3>>] }

ConfigDocs ==
    UNION { [sections -> UNION {SectionDocs(x) : x \in sections}]
            : sections \in SUBSET {"window", "slideshow", "colors"} }

Docs == {d \in ConfigDocs : \A x \in DOMAIN d : d[x] \in SectionDocs(x)}

ConfigFiles ==
    {NoConfig}
        \cup {[exists |-> TRUE, wellformed |-> w, doc |-> d]
                : w \in BOOLEAN, d \in Docs}

Pending(fn, arg) == [fn |-> fn, arg |-> arg, done |-> FALSE, result |-> <<>>]

InitUnit ==
    /\ InitApp
    /\ \/ /\ env = StandardEnv
          /\ call \in {Pending("_scan_images", d) :
                         d \in {NoDirectory}
                               \cup {[exists |-> TRUE, entries |-> S]
                                       : S \in SUBSET Files}}
       \/ /\ env \in {[StandardEnv EXCEPT !.undecodable = u]
                        : u \in SUBSET LoadFiles}
          /\ call \in {Pending("load_images_threaded", l) :
                         l \in {x \in Lists(LoadFiles, MaxPaths)
                                  : NoRepeat(x)}}
       \/ /\ env \in {[StandardEnv EXCEPT !.catalog = c] :
                         c \in {[exists |-> FALSE, rows |-> <<>>]}
                               \cup {[exists |-> TRUE, rows |-> r]
                                       : r \in Lists(CatalogRows, MaxRows)}}
          /\ call = Pending("load_menu_structure", <<>>)
       \/ /\ env \in {[StandardEnv EXCEPT !.config = c] : c \in ConfigFiles}
          /\ call = Pending("_load_config", <<>>)

Return(value) ==
    /\ ~call.done
    /\ call' = [call EXCEPT !.done = TRUE, !.result = value]
    /\ UNCHANGED app_vars

CallScanImages ==
    /\ call.fn = "_scan_images"
    /\ Return(scan_images(call.arg))

CallLoadImages ==
    /\ call.fn = "load_images_threaded"
    /\ Return(load_images_threaded(call.arg))

CallLoadMenu ==
    /\ call.fn = "load_menu_structure"
    /\ Return(load_menu_structure)

CallLoadConfig ==
    /\ call.fn = "_load_config"
    /\ Return(load_config)

NextUnit ==
    \/ CallScanImages
    \/ CallLoadImages
    \/ CallLoadMenu
    \/ CallLoadConfig

UnitSpec == InitUnit /\ [][NextUnit]_vars

Returned(fn) == call.fn = fn /\ call.done

-----------------------------------------------------------------------------
(* Helpers of the properties *)

Elems(seq) == {seq[i] : i \in DOMAIN seq}

\* The image set of the category at index i.
ImageSet(i) == load_images_threaded(menu_items[i + 1].image_paths)

\* The step is a poll that takes the head of the completion queue.
Consumed ==
    /\ is_loading
    /\ queue_tags # <<>>
    /\ queue_obj' = queue_obj
    /\ queue_tags' = Tail(queue_tags)

\* The step is a step of a loader thread.
LoaderStep == Len(threads') = Len(threads) /\ threads' # threads

\* The step handles a rotate input: a key, or the auto-advance event.
RotateLeftInput == KeyRight \/ (OnUserEvent /\ ~is_loading)
RotateRightInput == KeyLeft
RotateInput == KeyLeft \/ KeyRight \/ OnUserEvent

\* No loader thread is running and no poll can change anything.
Settled ==
    /\ \A w \in DOMAIN threads : threads[w].pc = "done"
    /\ ~(is_loading /\ loaded_result_queue # <<>>)

-----------------------------------------------------------------------------
(* Properties *)

\* C1: a result taken from the completion queue is installed as the live
\* ring only if it was produced for the request whose id is load_request_id
\* at that moment; a result of a superseded request is discarded, the ring
\* is unchanged and the state stays Loading.
C1_CommitOnlyCurrent ==
    [][(Consumed /\ Head(queue_tags) # load_request_id)
        => /\ current_img_list' = current_img_list
           /\ ring_req' = ring_req
           /\ is_loading']_vars

\* C2: once the switches 1..n are issued and every loader has finished and
\* been polled, the app is Idle and the live ring is the result of request
\* n, the image set of the category of request n.
C2_LastRequestWins ==
    (load_request_id > 0 /\ Settled)
        => /\ ~is_loading
           /\ ring_req = load_request_id
           /\ Elems(current_img_list) = Elems(ImageSet(current_index))

\* C3: while is_loading, a rotate key or an auto-advance event changes
\* neither the live ring (elements and order) nor the displayed image.
C3_NoRotateWhileLoading ==
    [][(is_loading /\ RotateInput)
        => /\ current_img_list' = current_img_list
           /\ current_img_bg' = current_img_bg]_vars

C3_Witness ==
    /\ is_loading
    /\ last_event \in {"KeyLeft", "KeyRight"}
    /\ Len(current_img_list) > 1

\* C4: a category switch is accepted in Idle and in Loading; it records the
\* target index, sets is_loading, raises load_request_id by exactly 1 and
\* starts exactly one loader tagged with the new id, leaving the earlier
\* loaders as they are; the number of loaders started is the counter.
C4_SwitchAlwaysAccepted ==
    /\ []((status = "running" /\ load_request_id < MaxRequests)
            => (ENABLED KeyUp /\ ENABLED KeyDown))
    /\ [](Len(threads) = load_request_id)
    /\ [][(KeyUp \/ KeyDown)
           => /\ current_index' \in
                    {(current_index + 1) % Len(menu_items),
                     (current_index - 1) % Len(menu_items)}
              /\ is_loading'
              /\ load_request_id' = load_request_id + 1
              /\ Len(threads') = Len(threads) + 1
              /\ \A w \in DOMAIN threads : threads'[w] = threads[w]
              /\ threads'[Len(threads')].pc = "load"
              /\ threads'[Len(threads')].req_id = load_request_id'
              /\ threads'[Len(threads')].paths =
                    menu_items[current_index' + 1].image_paths]_vars

C4_Witness ==
    /\ last_event \in {"KeyUp", "KeyDown"}
    /\ load_request_id = 2
    /\ is_loading
    /\ threads[1].pc = "append"

\* C5: in Loading with a result queued, one poll removes the head of the
\* queue, replaces the live ring by exactly that result and clears
\* is_loading; with the queue empty the poll changes nothing.
C5_PollCommitsWhole ==
    [][(is_loading /\ LogicUpdate)
        => IF loaded_result_queue # <<>>
           THEN /\ loaded_result_queue' = Tail(loaded_result_queue)
                /\ current_img_list' = Head(loaded_result_queue)
                /\ ~is_loading'
           ELSE UNCHANGED vars]_vars

C5_Witness ==
    /\ ~is_loading
    /\ ring_req = 1
    /\ rot_net = 0
    /\ current_img_list = <<Resource(5)>>
    /\ loaded_result_queue = <<>>

\* C6: whenever the rotations applied to a ring since it was installed
\* cancel (as many left as right, or a multiple of its length more of one
\* direction), the ring is in its installed order; a left rotation undoes
\* a right one and a right one a left one, for rings of every length.
C6_RotationsCancel ==
    /\ rot_net = 0 => current_img_list = ring_base
    /\ rotate_right(rotate_left(current_img_list)) = current_img_list
    /\ rotate_left(rotate_right(current_img_list)) = current_img_list
    /\ current_img_list # <<>> =>
          /\ RotateRight(RotateLeft(current_img_list)) = current_img_list
          /\ RotateLeft(RotateRight(current_img_list)) = current_img_list

C6_Witness ==
    /\ ~is_loading
    /\ last_event = "KeyLeft"
    /\ rot_net = 0
    /\ Len(current_img_list) = 3

\* C7: in Idle, rotate-left on a non-empty ring moves the head to the tail
\* and rotate-right the tail to the head, the other elements keeping their
\* order; on an empty ring the rotation raises nothing and changes nothing.
C7_RotateMovesOneElement ==
    [][LET old == current_img_list
           new == current_img_list'
           n   == Len(current_img_list)
       IN  /\ (~is_loading /\ old # <<>> /\ RotateLeftInput)
                => /\ Len(new) = n
                   /\ new[n] = old[1]
                   /\ \A i \in 1..(n - 1) : new[i] = old[i + 1]
           /\ (~is_loading /\ old # <<>> /\ RotateRightInput)
                => /\ Len(new) = n
                   /\ new[1] = old[n]
                   /\ \A i \in 2..n : new[i] = old[i - 1]
           /\ (old = <<>> /\ RotateInput)
                => /\ status' = "running"
                   /\ UNCHANGED <<display_vars, loaded_result_queue,
                                  threads>>]_vars

C7_Witness ==
    /\ ~is_loading
    /\ last_event = "KeyRight"
    /\ ring_req = 0
    /\ current_img_list = <<Resource(2), Resource(3), Resource(1)>>

\* C8: load_request_id starts at 0, every category switch raises it by
\* exactly 1, no other step changes it, and no two loaders carry the same
\* request id.
C8_CounterMonotonic ==
    /\ load_request_id = 0
    /\ [][/\ (KeyUp \/ KeyDown) => load_request_id' = load_request_id + 1
          /\ load_request_id' # load_request_id => (KeyUp \/ KeyDown)]_vars
    /\ [](\A v, w \in DOMAIN threads :
             v # w => threads[v].req_id # threads[w].req_id)

C8_Witness ==
    /\ load_request_id = 2
    /\ ~is_loading
    /\ rot_net # 0
    /\ timer_delay = 0

\* C9: every Loading episode ends, as long as the frame loop keeps running
\* and the loaders keep being scheduled.
C9_LoadingEnds == is_loading ~> (~is_loading \/ status # "running")

C9_Witness ==
    /\ status = "running"
    /\ ~is_loading
    /\ load_request_id = 2
    /\ ring_req = 2

\* C10: a step of a loader thread changes neither the live ring, the
\* displayed image, the request counter, the loading flag nor the category
\* index; the only shared state it may change is the completion queue, by
\* appending its result.
C10_LoaderOnlyPosts ==
    [][LoaderStep
        => /\ UNCHANGED <<status, display_vars, queue_obj, timer_delay>>
           /\ \/ loaded_result_queue' = loaded_result_queue
              \/ \E w \in DOMAIN threads :
                    loaded_result_queue' =
                        Append(loaded_result_queue, threads[w].results)]_vars

C10_Witness ==
    /\ is_loading
    /\ loaded_result_queue = <<ImageSet(current_index)>>
    /\ current_img_list # ImageSet(current_index)


\* The files of a directory that are images: extension .jpg or .jpeg in
\* any case (a.jpg b.JPG c.jpeg d.jpg e.jpg B.jpg a2.Jpeg).
ImageFiles == {1, 2, 3, 4, 5, 7, 8}

\* The names of a list of paths ascend.
Ascending(paths) ==
    \A i, j \in DOMAIN paths :
        i < j => StrLess(FileName[paths[i]], FileName[paths[j]])

\* ring is the decoded images of the category at index i in name order.
IsRingOf(ring, i) ==
    LET directory == Directory(menu_items[i + 1].directory) IN
    /\ Ascending([k \in DOMAIN ring |-> ring[k][1]])
    /\ \A k \in DOMAIN ring : ring[k] = Resource(ring[k][1])
    /\ {ring[k][1] : k \in DOMAIN ring} =
          {f \in directory.entries \cap ImageFiles : f \notin env.undecodable}

\* The step is loader w running its test, or its append.
Tests(w) == threads[w].pc = "check" /\ threads'[w] # threads[w]
Appends(w) == threads[w].pc = "append" /\ threads'[w] # threads[w]

\* Every id and enabled field of the catalog is an integer.
AllRowsParse ==
    \A i \in DOMAIN env.catalog.rows :
        LET row == env.catalog.rows[i] IN
        /\ Len(row) >= 1 => IsInt(strip(row[1]))
        /\ Len(row) >= 3 => IsInt(row[3])

\* C11: a loader that runs its test after a newer switch has advanced the
\* counter returns without posting: queue, ring and loading flag are left
\* as they are, whether or not the newer result has arrived; a loader that
\* has returned does nothing more.
C11_StaleLoaderPostsNothing ==
    [][\A w \in DOMAIN threads :
          /\ (Tests(w) /\ threads[w].req_id # load_request_id)
                => /\ threads'[w].pc = "done"
                   /\ UNCHANGED <<loaded_result_queue, queue_tags, queue_obj,
                                  current_img_list, current_img_bg,
                                  is_loading>>
          /\ threads[w].pc = "done" => threads'[w] = threads[w]]_vars

C11_Witness ==
    /\ load_request_id = 2
    /\ threads[1].outcome = "dropped"
    /\ threads[2].pc = "load"
    /\ is_loading
    /\ loaded_result_queue = <<>>

\* C12: every result a loader posts is the list of the decoded images of
\* its category in ascending filename order, and a commit installs the
\* posted list as it is, so position 0 is the first decoded image by name,
\* whatever rotations the ring went through before.
C12_CommitInstallsSorted ==
    [][/\ \A w \in DOMAIN threads :
             (Appends(w) /\ threads[w].qref = queue_obj)
                => /\ IsRingOf(threads[w].results, threads[w].index)
                   /\ loaded_result_queue' =
                         Append(loaded_result_queue, threads[w].results)
       /\ Consumed
             => /\ current_img_list' = Head(loaded_result_queue)
                /\ Ascending([k \in DOMAIN current_img_list' |->
                                 current_img_list'[k][1]])]_vars

C12_Witness ==
    /\ ~is_loading
    /\ ring_req = 2
    /\ current_index = 0
    /\ current_img_list = <<Resource(1), Resource(2), Resource(3)>>

\* C13: switching to a category with no image is not fatal: the loader
\* posts its empty result, the poll commits it (empty ring, Idle), and
\* every rotate input on the empty ring changes nothing and raises nothing.
C13_EmptyCategoryNotFatal ==
    /\ [](status # "crashed")
    /\ [][/\ \A w \in DOMAIN threads :
                (Appends(w) /\ threads[w].results = <<>>
                    /\ threads[w].qref = queue_obj)
                   => loaded_result_queue' = Append(loaded_result_queue, <<>>)
          /\ (Consumed /\ Head(loaded_result_queue) = <<>>)
                => /\ current_img_list' = <<>>
                   /\ ~is_loading'
                   /\ status' = "running"
          /\ (current_img_list = <<>> /\ RotateInput)
                => /\ current_img_list' = <<>>
                   /\ status' = "running"
                   /\ UNCHANGED <<current_index, current_img_bg, is_loading,
                                  load_request_id, loaded_result_queue,
                                  threads>>]_vars

C13_Witness ==
    /\ status = "running"
    /\ ring_base = <<>>
    /\ menu_items[3].image_paths = <<4>>
    /\ ~is_loading
    /\ current_index = 2
    /\ ring_req = load_request_id
    /\ current_img_list = <<>>
    /\ last_event \in {"KeyLeft", "KeyRight", "OnUserEvent"}

\* C14: load_images_threaded returns one resource for each path that
\* decodes, in the order of the input, and none for a path that fails.
C14_FailuresAreSkipped ==
    Returned("load_images_threaded")
        => LET decoded == SelectSeq(call.arg,
                                    LAMBDA p : p \notin env.undecodable)
           IN  /\ Len(call.result) = Len(decoded)
               /\ \A i \in DOMAIN decoded :
                     call.result[i] = Resource(decoded[i])

C14_Witness ==
    /\ Returned("load_images_threaded")
    /\ call.arg = <<2, 1, 3>>
    /\ env.undecodable = {1}
    /\ call.result = <<Resource(2), Resource(3)>>

\* C15: for a catalog whose rows all parse, load_menu_structure returns one
\* category for each row with at least 4 fields and enabled = 1, in file
\* order, and nothing else; rows with equal ids are all kept.
C15_EnabledRowsInOrder ==
    (Returned("load_menu_structure") /\ env.catalog.exists /\ AllRowsParse)
        => LET kept == SelectSeq(env.catalog.rows,
                          LAMBDA r : Len(r) >= 4 /\ ParseInt(r[3]) = 1)
           IN  /\ Len(call.result) = Len(kept)
               /\ \A i \in DOMAIN kept :
                     /\ call.result[i].menu_id = ParseInt(strip(kept[i][1]))
                     /\ call.result[i].directory = strip(kept[i][2])
                     /\ call.result[i].menu_name = strip(kept[i][4])

C15_Witness ==
    /\ Returned("load_menu_structure")
    /\ env.catalog.rows = << <<"1", "nature", "1", " Nature", "x">>,
                             <<"2", " city ", "0", "City", "y">>,
                             <<"1", "nature", " 1", "Dup">> >>
    /\ Len(call.result) = 2
    /\ call.result[1].menu_id = call.result[2].menu_id

\* C16: a row whose id or enabled field is not an integer affects only
\* itself: every well-formed enabled row of the file, before or after it,
\* is loaded.
C16_BadRowLosesOnlyItself ==
    (Returned("load_menu_structure") /\ env.catalog.exists)
        => LET kept == SelectSeq(env.catalog.rows,
                          LAMBDA r : /\ Len(r) >= 4
                                     /\ IsInt(r[3])
                                     /\ ParseInt(r[3]) = 1
                                     /\ IsInt(strip(r[1])))
           IN  /\ Len(call.result) = Len(kept)
               /\ \A i \in DOMAIN kept :
                     call.result[i].menu_name = strip(kept[i][4])

\* C17: when the catalog is missing or yields no category, start-up ends
\* with exit status 1: the frame loop handles no event, no category switch
\* is processed and no loader is started.
C17_NoCatalogIsFatal ==
    (status # "starting" /\ (~env.catalog.exists \/ menu_items = <<>>))
        => /\ status = "exit1"
           /\ last_event = "none"
           /\ load_request_id = 0
           /\ ~is_loading
           /\ threads = <<>>
           /\ ~timer_event

C17_Witness ==
    /\ status = "exit1"
    /\ env.catalog.exists
    /\ env.catalog.rows # <<>>

\* C18: when config.json is missing or does not decode, the loaded
\* configuration is the built-in default set: every key of window,
\* slideshow and colors has its default value.
C18_DefaultsWhenUnreadable ==
    (Returned("_load_config")
        /\ (~env.config.exists \/ ~env.config.wellformed))
        => /\ \A section \in DOMAIN DEFAULT_CONFIG :
                 \A key \in DOMAIN DEFAULT_CONFIG[section] :
                    /\ HasKey(call.result, section, key)
                    /\ call.result[section][key] =
                          DEFAULT_CONFIG[section][key]
           /\ call.result.window.fps = 30
           /\ call.result.window.menu_width = 205
           /\ call.result.slideshow.image_delay_ms = 15000

C18_Witness ==
    /\ Returned("_load_config")
    /\ env.config.exists
    /\ ~env.config.wellformed
    /\ DOMAIN env.config.doc = {"window", "slideshow"}
    /\ call.result.slideshow.start_delay_ms = 20000

\* C19: _scan_images returns the entries of the directory whose extension
\* is .jpg or .jpeg in any case, each once, in ascending order of their
\* names, and no other entry; a directory that does not exist gives none.
C19_ScanFiltersAndSorts ==
    Returned("_scan_images")
        => /\ Ascending(call.result)
           /\ NoRepeat(call.result)
           /\ Elems(call.result) =
                 IF call.arg.exists
                 THEN call.arg.entries \cap ImageFiles ELSE {}

C19_Witness ==
    /\ Returned("_scan_images")
    /\ call.arg.entries = {1, 6, 7, 8}
    /\ call.result = <<7, 1, 8>>

\* C20: the displayed image is the display copy of the element at position
\* 0 of the live ring, and none when the ring is empty.
C20_DisplayedIsHead ==
    current_img_bg = IF current_img_list # <<>>
                     THEN current_img_list[1][3] ELSE None

\* The step handles a category switch input.
SwitchInput == KeyUp \/ KeyDown

\* C21: whenever the app is Idle, the elements of the live ring are the
\* image set of the category at current_index.
C21_IdleRingIsCurrentCategory ==
    ~is_loading
        => /\ Elems(current_img_list) = Elems(ImageSet(current_index))
           /\ Len(current_img_list) = Len(ImageSet(current_index))

\* C22: a category switch leaves the live ring and the displayed image as
\* they are, and from the trigger until a commit no step changes them,
\* however many switches follow.
C22_SwitchKeepsRing ==
    [][/\ SwitchInput => UNCHANGED <<current_img_list, current_img_bg>>
       /\ (is_loading /\ ~Consumed)
             => UNCHANGED <<current_img_list, current_img_bg>>]_vars

C22_Witness ==
    /\ is_loading
    /\ load_request_id = 2
    /\ ring_req = 0
    /\ rot_net # 0
    /\ current_img_list = <<Resource(2), Resource(3), Resource(1)>>
    /\ current_img_bg = Resource(2)[3]

\* C23: a category switch empties the completion queue; a result enters
\* the queue only by the one append of its loader, and a commit takes the
\* head of the queue, so a result queued when the switch is triggered is
\* never committed afterwards.
C23_SwitchEmptiesQueue ==
    [][/\ SwitchInput
             => /\ loaded_result_queue' = <<>>
                /\ queue_tags' = <<>>
       /\ Len(loaded_result_queue') > Len(loaded_result_queue)
             => \E w \in DOMAIN threads :
                   /\ Appends(w)
                   /\ threads'[w].pc = "done"
                   /\ loaded_result_queue' =
                         Append(loaded_result_queue, threads[w].results)
       /\ current_img_list' # current_img_list /\ is_loading
             => /\ loaded_result_queue # <<>>
                /\ current_img_list' = Head(loaded_result_queue)]_vars

C23_Witness ==
    /\ last_event \in {"KeyUp", "KeyDown"}
    /\ load_request_id = 2
    /\ threads[1].outcome = "posted"
    /\ ring_req = 0
    /\ threads[2].pc = "load"
    /\ loaded_result_queue = <<>>

\* C24: while the app is Idle no loader step changes the live ring, the
\* displayed image or the loading flag, nothing is taken from the
\* completion queue, and the ring changes only through a rotation.
C24_IdleIgnoresQueue ==
    [][~is_loading
         => /\ LoaderStep
                => UNCHANGED <<current_img_list, current_img_bg, is_loading>>
            /\ ~SwitchInput
                => /\ Len(loaded_result_queue') >= Len(loaded_result_queue)
                   /\ SubSeq(loaded_result_queue', 1,
                             Len(loaded_result_queue)) = loaded_result_queue
            /\ current_img_list' # current_img_list => RotateInput]_vars

C24_Witness ==
    /\ load_request_id = 2
    /\ ~is_loading
    /\ ring_req = load_request_id
    /\ threads[1].outcome = "posted"
    /\ queue_tags = <<1>>
    /\ loaded_result_queue # <<>>

\* C25: the completion queue holds at most one result, and a result it
\* holds was produced for the request whose id is load_request_id.
C25_QueueHoldsCurrentResult ==
    /\ Len(loaded_result_queue) <= 1
    /\ \A i \in DOMAIN queue_tags : queue_tags[i] = load_request_id

\* C26: is_loading is false at start-up, only a category switch sets it
\* and every switch does, only a commit clears it and every commit does;
\* so it is true exactly from a switch to the next commit, and between two
\* commits there is a switch.
C26_LoadingBetweenSwitchAndCommit ==
    /\ ~is_loading
    /\ [][/\ (~is_loading /\ is_loading') => SwitchInput
          /\ SwitchInput => is_loading'
          /\ (is_loading /\ ~is_loading') => Consumed
          /\ (queue_obj' = queue_obj /\ Len(queue_tags') < Len(queue_tags))
                => (is_loading /\ ~is_loading')]_vars

C26_Witness ==
    /\ is_loading
    /\ load_request_id = 2
    /\ ring_req = 1
    /\ last_event \in {"KeyUp", "KeyDown"}

C28_RotateKeyIgnoredWhileLoading ==
    [][(is_loading /\ (KeyLeft \/ KeyRight))
         => UNCHANGED <<status, display_vars, loaded_result_queue,
                        queue_obj, queue_tags, threads, timer_delay,
                        timer_event>>]_vars

\* C29: while the app runs current_index is an index of the category list;
\* only a switch changes it, next from the last category goes to the first
\* and previous from the first to the last, and next and previous undo
\* each other at every index.
C29_IndexWraps ==
    /\ [](status \in {"running", "exited"}
            => /\ current_index \in 0..(Len(menu_items) - 1)
               /\ \A i \in 0..(Len(menu_items) - 1) :
                     /\ prev_index(next_index(i)) = i
                     /\ next_index(prev_index(i)) = i)
    /\ [][/\ KeyUp
                => current_index' =
                      IF current_index = Len(menu_items) - 1
                      THEN 0 ELSE current_index + 1
          /\ KeyDown
                => current_index' =
                      IF current_index = 0
                      THEN Len(menu_items) - 1 ELSE current_index - 1
          /\ current_index' # current_index => SwitchInput]_vars

C29_Witness ==
    /\ status = "running"
    /\ Len(menu_items) = 2
    /\ last_event = "KeyDown"
    /\ load_request_id = 1
    /\ current_index = 1

\* C30: for a configuration document that decodes, every key of
\* DEFAULT_CONFIG has a value after loading: the value of the document
\* where the document has the key, the default where it has not.
C30_PartialConfigKeepsDefaults ==
    (Returned("_load_config") /\ env.config.exists /\ env.config.wellformed)
        => \A section \in DOMAIN DEFAULT_CONFIG :
              \A key \in DOMAIN DEFAULT_CONFIG[section] :
                 /\ HasKey(call.result, section, key)
                 /\ call.result[section][key] =
                       IF HasKey(env.config.doc, section, key)
                       THEN env.config.doc[section][key]
                       ELSE DEFAULT_CONFIG[section][key]

====
